---- MODULE Spec2Model ----
(***************************************************************************)
(* State-machine model of the SQL Analytics export tool                    *)
(* (sqlanalytics/api/cmd/main.go) and of the table-column serializer of    *)
(* the api package (VisualizationTableColumn.MarshalJSON).                 *)
(*                                                                         *)
(* Strings whose characters matter (display names, type tags, resource     *)
(* names, file names, IDs) are sequences of one-character strings.         *)
(*                                                                         *)
(* Fetched payloads are well-formed JSON of the shapes the api package     *)
(* declares, so the json.Unmarshal panics are not modelled.  Of a resource *)
(* block the model keeps what names it and what it refers to; the scalar   *)
(* fields, parameter blocks and widget positions are left out.             *)
(***************************************************************************)
EXTENDS Integers, Sequences, FiniteSets, TLC

VARIABLES
    mode,             \* the -mode flag
    args,             \* flag.Args() not yet handed to a load call
    pc,               \* position of the single thread of control
    wps,              \* loadDashboard: widgets its second loop still has to visit
    Dashboards,       \* Inventory.Dashboards
    Widgets,          \* Inventory.Widgets
    Queries,          \* Inventory.Queries
    Visualizations,   \* Inventory.Visualizations
    files,            \* the output directory: file name -> blocks written
    fetches,          \* number of calls made to ReadDashboard / ReadQuery
    err,              \* the error value of the last fetch
    qi,               \* writeQueries: index of the next query
    di,               \* writeDashboards: index of the next dashboard
    str,              \* canonicalize: the argument
    canon1,           \* canonicalize(str)
    canon2,           \* canonicalize(canonicalize(str))
    cpc,              \* canonicalize driver position
    col,              \* a decoded table column
    colOut,           \* the fields its serialization holds
    kpc               \* column serialization driver position

inventory == <<Dashboards, Widgets, Queries, Visualizations>>
mainVars == <<mode, args, pc, wps, Dashboards, Widgets, Queries, Visualizations,
              files, fetches, err, qi, di>>
canonVars == <<str, canon1, canon2, cpc>>
colVars == <<col, colOut, kpc>>
vars == <<mode, args, pc, wps, Dashboards, Widgets, Queries, Visualizations,
          files, fetches, err, qi, di, str, canon1, canon2, cpc, col, colOut, kpc>>

(***************************************************************************)
(* Bounds                                                                  *)
(***************************************************************************)
MaxLen == 3          \* longest argument of canonicalize
MaxArgs == 2         \* most root IDs on the command line
MaxVis == 3          \* most visualizations in a fetched query
MaxWidgets == 2      \* most widgets in a fetched dashboard
MaxDeviations == 2   \* most fields of a column that differ from the defaults

\* All sequences over S of length at most n.
SeqUpTo(S, n) == UNION {[1..k -> S] : k \in 0..n}

(***************************************************************************)
(* Strings                                                                 *)
(***************************************************************************)
Upper == <<"A","B","C","D","E","F","G","H","I","J","K","L","M",
           "N","O","P","Q","R","S","T","U","V","W","X","Y","Z","U+00C9">>
Lower == <<"a","b","c","d","e","f","g","h","i","j","k","l","m",
           "n","o","p","q","r","s","t","u","v","w","x","y","z","U+00E9">>
Digits == <<"0","1","2","3","4","5","6","7","8","9">>

AsciiLetters == {Upper[i] : i \in 1..26} \cup {Lower[i] : i \in 1..26}
DigitChars == {Digits[i] : i \in 1..10}

\* regexp class \w: [0-9A-Za-z_]; \W is its complement, so every non-ASCII
\* rune is a non-word character.
IsWordChar(c) == c \in AsciiLetters \cup DigitChars \cup {"_"}

\* strings.ToLower, one rune.
LowerChar(c) ==
    IF \E i \in DOMAIN Upper : Upper[i] = c
    THEN Lower[CHOOSE i \in DOMAIN Upper : Upper[i] = c]
    ELSE c

ToLower(s) == [i \in 1..Len(s) |-> LowerChar(s[i])]

\* regexp.MustCompile(`[()]`).ReplaceAllLiteralString(str, "")
RemoveParens(s) == SelectSeq(s, LAMBDA c : c \notin {"(", ")"})

\* regexp.MustCompile(`\W`).ReplaceAllLiteralString(str, "_")
ReplaceNonWord(s) == [i \in 1..Len(s) |-> IF IsWordChar(s[i]) THEN s[i] ELSE "_"]

canonicalize_NoLower(s) == ReplaceNonWord(RemoveParens(s))

canonicalize(s) == ToLower(ReplaceNonWord(RemoveParens(s)))

\* strconv.Itoa for a non-negative int.
RECURSIVE Itoa(_)
Itoa(n) == IF n < 10 THEN <<Digits[n + 1]>>
           ELSE Itoa(n \div 10) \o <<Digits[(n % 10) + 1]>>

(***************************************************************************)
(* api.VisualizationTableColumn and its MarshalJSON.  A field value is     *)
(* held as its JSON encoding, which is what MarshalJSON compares.          *)
(***************************************************************************)
Fields == {"name", "type", "title", "displayAs", "allowSearch", "numberFormat",
           "booleanValues", "imageUrlTemplate", "imageTitleTemplate",
           "imageWidth", "imageHeight", "linkUrlTemplate", "linkTextTemplate",
           "linkTitleTemplate", "linkOpenInNewTab", "visible", "order",
           "alignContent", "allowHTML", "highlightLinks"}

BoolFields == {"allowSearch", "linkOpenInNewTab", "visible", "allowHTML",
               "highlightLinks"}

\* The struct's fields: the JSON fields and SkipDefaults (json:"-").
StructFields == Fields \cup {"SkipDefaults"}

\* The Go zero value of each field.
ZeroValue(f) ==
    CASE f \in BoolFields \cup {"SkipDefaults"} -> "false"
      [] f = "order" -> "0"
      [] f = "booleanValues" -> "null"
      [] OTHER -> "\"\""

\* visualizationTableColumnDefaults
visualizationTableColumnDefaults ==
    [f \in StructFields |->
        CASE f = "booleanValues" -> "[\"false\",\"true\"]"
          [] f \in {"imageUrlTemplate", "imageTitleTemplate", "linkUrlTemplate",
                    "linkTextTemplate", "linkTitleTemplate"} -> "\"{{ @ }}\""
          [] f \in {"linkOpenInNewTab", "visible", "allowHTML"} -> "true"
          [] f = "alignContent" -> "\"left\""
          [] OTHER -> ZeroValue(f)]

\* json.Marshal of the struct through its method-less local type: every JSON
\* field, except that order carries omitempty.
MarshalLocal(c) ==
    [f \in {g \in Fields : ~(g = "order" /\ c[g] = "0")} |-> c[f]]

\* The key-by-key comparison: the keys of this that stay in the output.
KeptKeys_DropZero(this, defaults) ==
    {k \in DOMAIN this : this[k] # ZeroValue(k)}

KeptKeys(this, defaults) ==
    {k \in DOMAIN this : ~(k \in DOMAIN defaults /\ this[k] = defaults[k])}

\* VisualizationTableColumn.MarshalJSON: the JSON object written, as a
\* function from the keys present to their values.
MarshalJSON(c) ==
    LET this == MarshalLocal(c)
    IN  IF c["SkipDefaults"] # "true"
        THEN this
        ELSE LET defaults == MarshalLocal(visualizationTableColumnDefaults)
             IN  [k \in KeptKeys(this, defaults) |-> this[k]]

\* json.Unmarshal of a JSON object into a VisualizationTableColumn.
DecodeColumn(obj) ==
    [f \in StructFields |-> IF f \in DOMAIN obj THEN obj[f] ELSE ZeroValue(f)]

\* writeQuery's loop over to.Columns.
SanitizeColumn(c) == [c EXCEPT !["SkipDefaults"] = "true", !["order"] = "0"]

\* Values a field takes besides its default.
AltValues(f) ==
    CASE f \in BoolFields ->
            {"true", "false"} \ {visualizationTableColumnDefaults[f]}
      [] f = "order" -> {"1", "2"}
      [] f = "booleanValues" -> {"null", "[\"no\",\"yes\"]"}
      [] OTHER -> {"\"\"", "\"x\""} \ {visualizationTableColumnDefaults[f]}

AllAltValues == UNION {AltValues(f) : f \in Fields}

\* Decoded columns in which at most MaxDeviations fields differ from the
\* defaults.
Columns ==
    UNION { { [f \in StructFields |->
                 IF f \in S THEN a[f]
                 ELSE IF f = "SkipDefaults" THEN "false"
                 ELSE visualizationTableColumnDefaults[f]]
              : a \in {b \in [S -> AllAltValues] :
                          \A f \in S : b[f] \in AltValues(f)} }
            : S \in {T \in SUBSET Fields : Cardinality(T) <= MaxDeviations} }

(***************************************************************************)
(* Visualization options payloads (json.RawMessage).  A payload is a JSON  *)
(* document: its layout (compact as the service sends it, or indented as   *)
(* json.MarshalIndent writes it), itemsPerPage (0 when absent), the        *)
(* column objects, and whether it holds keys other than those two.         *)
(***************************************************************************)
\* The table branch: decode into api.VisualizationTableOptions, mark every
\* column, re-marshal.
SanitizeTableOptions(o) ==
    [fmt |-> "indent",
     itemsPerPage |-> o.itemsPerPage,
     columns |-> [i \in 1..Len(o.columns) |->
                     MarshalJSON(SanitizeColumn(DecodeColumn(o.columns[i])))],
     other |-> FALSE]

\* The other branch: decode into interface{}, re-marshal indented.
SanitizeOtherOptions(o) == [o EXCEPT !.fmt = "indent"]

Table == <<"t","a","b","l","e">>

\* writeQuery, "Sanitize options to remove superfluous defaults".
SanitizeOptions(typ, o) ==
    IF typ = Table THEN SanitizeTableOptions(o) ELSE SanitizeOtherOptions(o)

(***************************************************************************)
(* The Remote Fetch Port: what ReadDashboard and ReadQuery may return.     *)
(* A fetch by ID returns the object of that ID.  The service numbers the   *)
(* visualizations of a query and the widgets of a dashboard itself.        *)
(***************************************************************************)
D1 == <<"d", "1">>
D2 == <<"d", "2">>
Q1 == <<"q", "1">>
Q2 == <<"q", "2">>
Q3 == <<"q", "3">>

DashboardIDs == {D1, D2}
QueryIDs == {Q1, Q2, Q3}

\* Query Q1 is on no dashboard and holds up to MaxVis visualizations; Q2
\* and Q3 are on dashboards and hold at most one.  "A b" and "a-b" are
\* different display names with the same canonical form.
NameAb == <<"A", " ", "b">>
NameA_b == <<"a", "-", "b">>
NameCd == <<"C", "(", "d", ")">>
NameZ == <<"Z", "9">>

Types == { <<"T","A","B","L","E">>, <<"T","a","b","l","e">>, <<"c","h","a","r","t">> }

\* The sequences over S of length at most one.
OneOrNone(S) == {<<>>} \cup {<<x>> : x \in S}

QueryNames(id) ==
    CASE id = Q1 -> {NameAb, NameCd} [] id = Q2 -> {NameA_b} [] OTHER -> {NameZ}

QueryTypeLists(id) ==
    IF id = Q1 THEN SeqUpTo(Types, MaxVis) ELSE OneOrNone(Types)

DashboardNames(id) == IF id = D1 THEN {NameAb} ELSE {NameA_b, NameCd}

\* The number the service knows an object by.
ObjectNumber(id) == CASE id[2] = "1" -> 1 [] id[2] = "2" -> 2 [] OTHER -> 3

\* The ID the service gave the k-th visualization of query q.
VisualizationIDOf(q, k) == 10 * ObjectNumber(q) + k

\* The ID the service gave the k-th widget of dashboard d.
WidgetIDOf(d, k) == 100 * ObjectNumber(d) + k

\* A column object as the service sends it: every field populated.
UpstreamColumn ==
    [f \in Fields |->
        CASE f = "name" -> "\"x\""
          [] f = "order" -> "1"
          [] OTHER -> visualizationTableColumnDefaults[f]]

\* The options payload the service sends for a visualization of a type.
UpstreamOptions(type) ==
    IF ToLower(type) = Table
    THEN [fmt |-> "compact", itemsPerPage |-> 25,
          columns |-> <<UpstreamColumn>>, other |-> FALSE]
    ELSE [fmt |-> "compact", itemsPerPage |-> 0,
          columns |-> <<>>, other |-> TRUE]

\* api.Query as decoded from a successful ReadQuery(id).
QueryResponses(id) ==
    { [ID |-> id, Name |-> n,
       Visualizations |->
          [k \in 1..Len(ts) |->
              [ID |-> VisualizationIDOf(id, k), Type |-> ts[k],
               Options |-> UpstreamOptions(ts[k])]]]
      : n \in QueryNames(id), ts \in QueryTypeLists(id) }

\* The visualization payload of a widget: absent (a text widget), or the
\* visualization's ID with or without its embedded query.
WidgetVisualizations(id) ==
    IF id = D1
    THEN { <<>>,
           <<[ID |-> VisualizationIDOf(Q2, 1), Query |-> <<Q2>>]>>,
           <<[ID |-> VisualizationIDOf(Q3, 1), Query |-> <<Q3>>]>>,
           <<[ID |-> VisualizationIDOf(Q2, 1), Query |-> <<>>]>> }
    ELSE { <<>>,
           <<[ID |-> VisualizationIDOf(Q2, 1), Query |-> <<Q2>>]>> }

\* api.Dashboard as decoded from a successful ReadDashboard(id).
DashboardResponses(id) ==
    { [ID |-> id, Name |-> n,
       Widgets |->
          [k \in 1..Len(vs) |->
              [ID |-> WidgetIDOf(id, k), Visualization |-> vs[k]]]]
      : n \in DashboardNames(id),
        vs \in SeqUpTo(WidgetVisualizations(id), MaxWidgets) }

(***************************************************************************)
(* Inventory Builder                                                       *)
(***************************************************************************)
Underscore == <<"_">>

\* loadDashboard's membership loop.
HasDashboard_Never(ds, id) == FALSE

HasDashboard(ds, id) == \E i \in DOMAIN ds : ds[i].RemoteID = id

\* loadQuery's membership loop.
HasQuery_Never(qs, id) == FALSE

HasQuery(qs, id) == \E i \in DOMAIN qs : qs[i].RemoteID = id

\* if err != nil { panic(err) }: where control goes when a fetch fails,
\* ret being where it goes when the load returns.
AfterFetchError_Ignore(ret) == ret

AfterFetchError(ret) == "panic"

\* loadDashboard, first loop: the Widget built from the i-th payload
\* (i counts from 1 here, from 0 in the code).
NewWidget(d, rn, i) ==
    LET w == d.Widgets[i]
    IN  [RemoteID |-> Itoa(w.ID),
         ResourceName |-> rn \o Underscore \o Itoa(i - 1),
         DashboardID |-> d.ID,
         VisualizationID |->
            IF Len(w.Visualization) # 0 THEN <<w.Visualization[1].ID>> ELSE <<>>,
         Visualization |-> w.Visualization]

\* loadQuery, first loop: visualization payloads decoded and linked.
NewVisualizations(q) ==
    [k \in 1..Len(q.Visualizations) |->
        [RemoteID |-> Itoa(q.Visualizations[k].ID),
         ResourceName |-> <<>>,
         QueryID |-> q.ID,
         Type |-> q.Visualizations[k].Type,
         Options |-> q.Visualizations[k].Options]]

\* loadQuery, "Figure out number of visualizations per type": vtyp.
CountTypes(vps) ==
    [t \in {ToLower(vps[k].Type) : k \in DOMAIN vps} |->
        Cardinality({k \in DOMAIN vps : ToLower(vps[k].Type) = t})]

\* The two fmt.Sprintf calls of the second pass.
VisualizationName_AlwaysSuffix(qrn, typ, n, seq) ==
    qrn \o Underscore \o typ \o Underscore \o Itoa(seq)

VisualizationName(qrn, typ, n, seq) ==
    IF n = 1 THEN qrn \o Underscore \o typ
    ELSE qrn \o Underscore \o typ \o Underscore \o Itoa(seq)

\* loadQuery, second pass, from index i on; vtypSeq is the running counter.
RECURSIVE NamePass(_, _, _, _, _)
NamePass(vps, i, vtyp, vtypSeq, qrn) ==
    IF i > Len(vps) THEN vps
    ELSE LET typ == ToLower(vps[i].Type)
             named == [vps EXCEPT ![i].ResourceName =
                          VisualizationName(qrn, typ, vtyp[typ], vtypSeq[typ])]
         IN  IF vtyp[typ] = 1
             THEN NamePass(named, i + 1, vtyp, vtypSeq, qrn)
             ELSE NamePass(named, i + 1, vtyp,
                           [vtypSeq EXCEPT ![typ] = @ + 1], qrn)

\* loadQuery after a successful fetch: the visualizations it appends.
NamedVisualizations(q) ==
    LET vps == NewVisualizations(q)
        vtyp == CountTypes(vps)
    IN  NamePass(vps, 1, vtyp, [t \in DOMAIN vtyp |-> 0], canonicalize(q.Name))

\* loadQuery(id), called from a place that continues at ret.
loadQuery(id, ret) ==
    \/ /\ HasQuery(Queries, id)
       /\ pc' = ret
       /\ UNCHANGED <<Queries, Visualizations, fetches, err>>
    \/ /\ ~HasQuery(Queries, id)
       /\ fetches' = fetches + 1
       /\ \/ /\ err' = "fetch error"
             /\ pc' = AfterFetchError(ret)
             /\ UNCHANGED <<Queries, Visualizations>>
          \/ \E q \in QueryResponses(id) :
                /\ Queries' = Append(Queries,
                                 [RemoteID |-> q.ID,
                                  ResourceName |-> canonicalize(q.Name),
                                  Name |-> q.Name])
                /\ Visualizations' = Visualizations \o NamedVisualizations(q)
                /\ pc' = ret
                /\ UNCHANGED err

\* main, mode "query": the next inv.loadQuery(arg).
LoadQueryArg ==
    /\ pc = "main" /\ mode = "query" /\ args # <<>>
    /\ loadQuery(Head(args), "main")
    /\ args' = Tail(args)
    /\ UNCHANGED <<mode, wps, Dashboards, Widgets, files, qi, di>>
    /\ UNCHANGED <<canonVars, colVars>>

\* main, mode "dashboard": inv.loadDashboard(arg) for an ID already loaded.
LoadDashboardPresent ==
    /\ pc = "main" /\ mode = "dashboard" /\ args # <<>>
    /\ HasDashboard(Dashboards, Head(args))
    /\ args' = Tail(args)
    /\ UNCHANGED <<mode, pc, wps, Dashboards, Widgets, Queries, Visualizations,
                   files, fetches, err, qi, di>>
    /\ UNCHANGED <<canonVars, colVars>>

\* inv.loadDashboard(arg) whose ReadDashboard fails.
LoadDashboardError ==
    /\ pc = "main" /\ mode = "dashboard" /\ args # <<>>
    /\ ~HasDashboard(Dashboards, Head(args))
    /\ fetches' = fetches + 1
    /\ err' = "fetch error"
    /\ pc' = AfterFetchError("main")
    /\ args' = Tail(args)
    /\ UNCHANGED <<mode, wps, Dashboards, Widgets, Queries, Visualizations,
                   files, qi, di>>
    /\ UNCHANGED <<canonVars, colVars>>

\* inv.loadDashboard(arg) up to the appends to Dashboards and Widgets.
LoadDashboardFetch ==
    /\ pc = "main" /\ mode = "dashboard" /\ args # <<>>
    /\ ~HasDashboard(Dashboards, Head(args))
    /\ fetches' = fetches + 1
    /\ \E d \in DashboardResponses(Head(args)) :
          LET rn == canonicalize(d.Name)
              new == [i \in 1..Len(d.Widgets) |-> NewWidget(d, rn, i)]
          IN  /\ Dashboards' = Append(Dashboards,
                                  [RemoteID |-> d.ID, ResourceName |-> rn,
                                   Name |-> d.Name])
              /\ Widgets' = Widgets \o new
              /\ wps' = new
    /\ pc' = "recurse"
    /\ args' = Tail(args)
    /\ UNCHANGED <<mode, Queries, Visualizations, files, err, qi, di>>
    /\ UNCHANGED <<canonVars, colVars>>

\* loadDashboard, second loop: a widget with no visualization, or whose
\* visualization embeds no query.
RecurseSkip ==
    /\ pc = "recurse" /\ wps # <<>>
    /\ \/ Len(Head(wps).Visualization) = 0
       \/ /\ Len(Head(wps).Visualization) # 0
          /\ Len(Head(wps).Visualization[1].Query) = 0
    /\ wps' = Tail(wps)
    /\ UNCHANGED <<mode, args, pc, Dashboards, Widgets, Queries, Visualizations,
                   files, fetches, err, qi, di>>
    /\ UNCHANGED <<canonVars, colVars>>

\* loadDashboard, second loop: i.loadQuery(q.ID).
RecurseLoadQuery ==
    /\ pc = "recurse" /\ wps # <<>>
    /\ Len(Head(wps).Visualization) # 0
    /\ Len(Head(wps).Visualization[1].Query) # 0
    /\ loadQuery(Head(wps).Visualization[1].Query[1], "recurse")
    /\ wps' = Tail(wps)
    /\ UNCHANGED <<mode, args, Dashboards, Widgets, files, qi, di>>
    /\ UNCHANGED <<canonVars, colVars>>

\* loadDashboard returns to main's loop.
RecurseReturn ==
    /\ pc = "recurse" /\ wps = <<>>
    /\ pc' = "main"
    /\ UNCHANGED <<mode, args, wps, Dashboards, Widgets, Queries, Visualizations,
                   files, fetches, err, qi, di>>
    /\ UNCHANGED <<canonVars, colVars>>

(***************************************************************************)
(* Renderer.  A file is the sequence of resource blocks written to it; a   *)
(* block holds the fields that name it and that refer to other blocks.     *)
(* An absent field is the empty sequence.                                  *)
(***************************************************************************)
NoFiles == [n \in {} |-> <<>>]

\* os.Create(name) followed by the writes: the file is truncated if it
\* exists.
CreateFile(fs, name, blocks) ==
    [n \in DOMAIN fs \cup {name} |-> IF n = name THEN blocks ELSE fs[n]]

\* fmt.Sprintf("query_%s.tf", qp.ResourceName)
QueryFile(rn) == <<"q","u","e","r","y","_">> \o rn \o <<".","t","f">>

\* fmt.Sprintf("dashboard_%s.tf", dp.ResourceName)
DashboardFile(rn) ==
    <<"d","a","s","h","b","o","a","r","d","_">> \o rn \o <<".","t","f">>

\* resource "databricks_sql_query" "<ResourceName>" { ... }
QueryBlock(qp) ==
    [resource |-> "databricks_sql_query", name |-> qp.ResourceName,
     title |-> qp.Name, query_id |-> <<>>, dashboard_id |-> <<>>,
     visualization_id |-> <<>>, type |-> <<>>, options |-> <<>>,
     closed |-> TRUE]

\* resource "databricks_sql_visualization" "<ResourceName>" { ... }
VisualizationBlock_RemoteID(qp, vp) ==
    [resource |-> "databricks_sql_visualization", name |-> vp.ResourceName,
     title |-> <<>>, query_id |-> <<qp.RemoteID>>, dashboard_id |-> <<>>,
     visualization_id |-> <<>>, type |-> ToLower(vp.Type),
     options |-> <<vp.Options>>, closed |-> TRUE]

VisualizationBlock(qp, vp) ==
    [resource |-> "databricks_sql_visualization", name |-> vp.ResourceName,
     title |-> <<>>, query_id |-> <<qp.ResourceName>>, dashboard_id |-> <<>>,
     visualization_id |-> <<>>, type |-> ToLower(vp.Type),
     options |-> <<vp.Options>>, closed |-> TRUE]

\* writeQuery: if vp.Object.QueryID != qp.RemoteID { continue }
OfQuery(vp, qp) == vp.QueryID = qp.RemoteID

\* writeQuery's loop assigns the re-marshalled options to v.Options, and v
\* is the *api.Visualization the inventory entry points to.
SanitizedVisualizations(vs, qp) ==
    [k \in 1..Len(vs) |->
        IF OfQuery(vs[k], qp)
        THEN [vs[k] EXCEPT !.Options = SanitizeOptions(ToLower(vs[k].Type), @)]
        ELSE vs[k]]

\* The blocks writeQuery writes for qp, vs being the visualizations as its
\* loop leaves them.
RECURSIVE VisualizationBlocks(_, _, _)
VisualizationBlocks(vs, k, qp) ==
    IF k > Len(vs) THEN <<>>
    ELSE IF OfQuery(vs[k], qp)
         THEN <<VisualizationBlock(qp, vs[k])>> \o VisualizationBlocks(vs, k + 1, qp)
         ELSE VisualizationBlocks(vs, k + 1, qp)

\* resource "databricks_sql_dashboard" "<ResourceName>" { ... }
DashboardBlock(dp) ==
    [resource |-> "databricks_sql_dashboard", name |-> dp.ResourceName,
     title |-> dp.Name, query_id |-> <<>>, dashboard_id |-> <<>>,
     visualization_id |-> <<>>, type |-> <<>>, options |-> <<>>,
     closed |-> TRUE]

\* resource "databricks_sql_widget" "<ResourceName>" { ... }: ref is the
\* visualization_id reference, absent for a text widget; closed is FALSE
\* when the run ended before the block's closing brace.
WidgetBlock(dp, wp, ref, closed) ==
    [resource |-> "databricks_sql_widget", name |-> wp.ResourceName,
     title |-> <<>>, query_id |-> <<>>, dashboard_id |-> <<dp.ResourceName>>,
     visualization_id |-> ref, type |-> <<>>, options |-> <<>>,
     closed |-> closed]

\* writeDashboard, "Look up the right visualization": the index of the
\* entry vp points to, 0 for nil.
LookupVisualization_Last(vs, rid) ==
    IF \E k \in DOMAIN vs : vs[k].RemoteID = rid THEN Len(vs) ELSE 0

LookupVisualization(vs, rid) ==
    IF \E k \in DOMAIN vs : vs[k].RemoteID = rid
    THEN CHOOSE k \in DOMAIN vs :
            /\ vs[k].RemoteID = rid
            /\ \A j \in 1..(k - 1) : vs[j].RemoteID # rid
    ELSE 0

\* writeDashboard's loop over i.Widgets from index k on: the blocks
\* written, and whether log.Fatalf ended the run.
RECURSIVE WidgetBlocks(_, _, _, _)
WidgetBlocks(ws, k, dp, vs) ==
    IF k > Len(ws) THEN [blocks |-> <<>>, fatal |-> FALSE]
    ELSE IF ws[k].DashboardID # dp.RemoteID THEN WidgetBlocks(ws, k + 1, dp, vs)
    ELSE IF ws[k].VisualizationID = <<>>
    THEN LET rest == WidgetBlocks(ws, k + 1, dp, vs)
         IN  [rest EXCEPT !.blocks = <<WidgetBlock(dp, ws[k], <<>>, TRUE)>> \o @]
    ELSE LET at == LookupVisualization(vs, Itoa(ws[k].VisualizationID[1]))
         IN  IF at = 0
             THEN [blocks |-> <<WidgetBlock(dp, ws[k], <<>>, FALSE)>>,
                   fatal |-> TRUE]
             ELSE LET rest == WidgetBlocks(ws, k + 1, dp, vs)
                  IN  [rest EXCEPT !.blocks =
                          <<WidgetBlock(dp, ws[k], <<vs[at].ResourceName>>, TRUE)>>
                          \o @]

\* main: unknown -mode.
UnknownMode ==
    /\ pc = "main" /\ mode \notin {"dashboard", "query"}
    /\ pc' = "fatal"
    /\ UNCHANGED <<mode, args, wps, Dashboards, Widgets, Queries, Visualizations,
                   files, fetches, err, qi, di>>
    /\ UNCHANGED <<canonVars, colVars>>

\* main: the load loop is over, inv.writeQueries() starts.
StartWriteQueries ==
    /\ pc = "main" /\ mode \in {"dashboard", "query"} /\ args = <<>>
    /\ pc' = "writeQueries"
    /\ qi' = 1
    /\ UNCHANGED <<mode, args, wps, Dashboards, Widgets, Queries, Visualizations,
                   files, fetches, err, di>>
    /\ UNCHANGED <<canonVars, colVars>>

\* writeQueries: i.writeQuery(qp) for the next query.
WriteQuery ==
    /\ pc = "writeQueries" /\ qi <= Len(Queries)
    /\ LET qp == Queries[qi]
           vs == SanitizedVisualizations(Visualizations, qp)
       IN  /\ Visualizations' = vs
           /\ files' = CreateFile(files, QueryFile(qp.ResourceName),
                                  <<QueryBlock(qp)>> \o VisualizationBlocks(vs, 1, qp))
    /\ qi' = qi + 1
    /\ UNCHANGED <<mode, args, pc, wps, Dashboards, Widgets, Queries,
                   fetches, err, di>>
    /\ UNCHANGED <<canonVars, colVars>>

\* writeQueries returns, inv.writeDashboards() starts.
StartWriteDashboards ==
    /\ pc = "writeQueries" /\ qi > Len(Queries)
    /\ pc' = "writeDashboards"
    /\ di' = 1
    /\ UNCHANGED <<mode, args, wps, Dashboards, Widgets, Queries, Visualizations,
                   files, fetches, err, qi>>
    /\ UNCHANGED <<canonVars, colVars>>

\* writeDashboards: i.writeDashboard(dp) for the next dashboard.
WriteDashboard ==
    /\ pc = "writeDashboards" /\ di <= Len(Dashboards)
    /\ LET dp == Dashboards[di]
           out == WidgetBlocks(Widgets, 1, dp, Visualizations)
       IN  /\ files' = CreateFile(files, DashboardFile(dp.ResourceName),
                                  <<DashboardBlock(dp)>> \o out.blocks)
           /\ pc' = IF out.fatal THEN "fatal" ELSE pc
    /\ di' = di + 1
    /\ UNCHANGED <<mode, args, wps, Dashboards, Widgets, Queries, Visualizations,
                   fetches, err, qi>>
    /\ UNCHANGED <<canonVars, colVars>>

\* writeDashboards returns and main ends.
Finish ==
    /\ pc = "writeDashboards" /\ di > Len(Dashboards)
    /\ pc' = "done"
    /\ UNCHANGED <<mode, args, wps, Dashboards, Widgets, Queries, Visualizations,
                   files, fetches, err, qi, di>>
    /\ UNCHANGED <<canonVars, colVars>>

(***************************************************************************)
(* Specification of a run of the tool                                      *)
(***************************************************************************)
CanonIdle == str = <<>> /\ canon1 = <<>> /\ canon2 = <<>> /\ cpc = "idle"
ColumnIdle ==
    /\ col = visualizationTableColumnDefaults
    /\ colOut = MarshalLocal(visualizationTableColumnDefaults)
    /\ kpc = "idle"

Modes == {"dashboard", "query", "other"}

\* The root IDs a mode is given.
RootIDs(m) == IF m = "query" THEN {Q1, Q2} ELSE DashboardIDs

Init ==
    /\ mode \in Modes
    /\ args \in SeqUpTo(RootIDs(mode), MaxArgs)
    /\ pc = "main"
    /\ wps = <<>>
    /\ Dashboards = <<>> /\ Widgets = <<>>
    /\ Queries = <<>> /\ Visualizations = <<>>
    /\ files = NoFiles
    /\ fetches = 0
    /\ err = "nil"
    /\ qi = 1 /\ di = 1
    /\ CanonIdle /\ ColumnIdle

Next ==
    \/ UnknownMode
    \/ LoadQueryArg
    \/ LoadDashboardPresent
    \/ LoadDashboardError
    \/ LoadDashboardFetch
    \/ RecurseSkip
    \/ RecurseLoadQuery
    \/ RecurseReturn
    \/ StartWriteQueries
    \/ WriteQuery
    \/ StartWriteDashboards
    \/ WriteDashboard
    \/ Finish

Spec == Init /\ [][Next]_vars

(***************************************************************************)
(* Specification of canonicalize applied to a string, and to its result    *)
(***************************************************************************)
Alphabet == {"a", "B", "7", "_", "(", ")", " ", "-", "U+00C9"}

MainIdle ==
    /\ mode = "query" /\ args = <<>> /\ pc = "idle" /\ wps = <<>>
    /\ Dashboards = <<>> /\ Widgets = <<>>
    /\ Queries = <<>> /\ Visualizations = <<>>
    /\ files = NoFiles /\ fetches = 0 /\ err = "nil" /\ qi = 1 /\ di = 1

InitCanon ==
    /\ str \in SeqUpTo(Alphabet, MaxLen)
    /\ canon1 = <<>> /\ canon2 = <<>> /\ cpc = "start"
    /\ MainIdle /\ ColumnIdle

CanonOnce ==
    /\ cpc = "start"
    /\ canon1' = canonicalize(str)
    /\ cpc' = "once"
    /\ UNCHANGED <<str, canon2, mainVars, colVars>>

CanonTwice ==
    /\ cpc = "once"
    /\ canon2' = canonicalize(canon1)
    /\ cpc' = "twice"
    /\ UNCHANGED <<str, canon1, mainVars, colVars>>

NextCanon == CanonOnce \/ CanonTwice

SpecCanon == InitCanon /\ [][NextCanon]_vars

(***************************************************************************)
(* Specification of the serialization of one table column                  *)
(***************************************************************************)
NoFields == [k \in {} |-> ""]

InitColumn ==
    /\ col \in Columns
    /\ colOut = NoFields /\ kpc = "decoded"
    /\ MainIdle /\ CanonIdle

\* json.Marshal of the column as decoded (SkipDefaults unset).
ColumnMarshal ==
    /\ kpc = "decoded"
    /\ colOut' = MarshalJSON(col)
    /\ kpc' = "marshalled"
    /\ UNCHANGED <<col, mainVars, canonVars>>

\* writeQuery's re-marshalling of the column: marked, then marshalled.
ColumnRender ==
    /\ kpc = "decoded"
    /\ colOut' = MarshalJSON(SanitizeColumn(col))
    /\ kpc' = "rendered"
    /\ UNCHANGED <<col, mainVars, canonVars>>

NextColumn == ColumnMarshal \/ ColumnRender

SpecColumn == InitColumn /\ [][NextColumn]_vars

(***************************************************************************)
(* Properties                                                              *)
(***************************************************************************)
NoSharedResourceName(s) ==
    \A i, j \in DOMAIN s : i # j => s[i].ResourceName # s[j].ResourceName

NoSharedRemoteID(s) ==
    \A i, j \in DOMAIN s : i # j => s[i].RemoteID # s[j].RemoteID

IsPrefixOf(s, t) == Len(s) <= Len(t) /\ \A i \in DOMAIN s : t[i] = s[i]

VisualizationsOf(q) ==
    SelectSeq(Visualizations, LAMBDA v : v.QueryID = q.RemoteID)

WidgetsOf(dp) == SelectSeq(Widgets, LAMBDA w : w.DashboardID = dp.RemoteID)

InDashboards(id) == \E i \in DOMAIN Dashboards : Dashboards[i].RemoteID = id

InQueries(id) == \E i \in DOMAIN Queries : Queries[i].RemoteID = id

EmbedsQuery(w) ==
    Len(w.Visualization) # 0 /\ Len(w.Visualization[1].Query) # 0

\* C1: no two dashboards, no two widgets, no two queries and no two
\* visualizations of the inventory share a ResourceName.
UniqueResourceNames ==
    /\ NoSharedResourceName(Dashboards)
    /\ NoSharedResourceName(Widgets)
    /\ NoSharedResourceName(Queries)
    /\ NoSharedResourceName(Visualizations)

WritingDashboard == pc = "writeDashboards" /\ di <= Len(Dashboards)

\* C3: writeDashboard gives every widget whose VisualizationID is set a
\* visualization_id reference to the ResourceName of an inventory
\* visualization with that RemoteID; when there is none, the run ends in a
\* fatal error at that widget, whose block carries no visualization_id.
WidgetReferencesResolve ==
    [][WritingDashboard =>
        LET dp == Dashboards[di]
            ws == WidgetsOf(dp)
            blocks == Tail(files'[DashboardFile(dp.ResourceName)])
        IN  /\ Len(blocks) <= Len(ws)
            /\ \A k \in DOMAIN blocks :
                  LET w == ws[k]
                      b == blocks[k]
                  IN  IF w.VisualizationID = <<>>
                      THEN b.visualization_id = <<>> /\ b.closed
                      ELSE IF \E j \in DOMAIN Visualizations :
                                 Visualizations[j].RemoteID =
                                     Itoa(w.VisualizationID[1])
                      THEN /\ b.closed
                           /\ b.visualization_id # <<>>
                           /\ \E j \in DOMAIN Visualizations :
                                 /\ Visualizations[j].RemoteID =
                                        Itoa(w.VisualizationID[1])
                                 /\ Visualizations[j].ResourceName =
                                        b.visualization_id[1]
                      ELSE /\ b.visualization_id = <<>>
                           /\ ~b.closed
                           /\ k = Len(blocks)
                           /\ pc' = "fatal"
            /\ (pc' = "fatal") = (\E k \in DOMAIN blocks : ~blocks[k].closed)
            /\ (pc' # "fatal" => Len(blocks) = Len(ws))]_vars

\* A dashboard file holds a widget block with a resolved reference and,
\* after it, the block at which the lookup missed.
WidgetReferencesResolveWitness ==
    /\ pc = "fatal"
    /\ \E n \in DOMAIN files :
          \E i, j \in DOMAIN files[n] :
             /\ i < j
             /\ files[n][i].resource = "databricks_sql_widget"
             /\ files[n][i].visualization_id # <<>>
             /\ ~files[n][j].closed

\* C4: no step removes, reorders or changes an entity the inventory holds:
\* every collection is, after the step, an extension of what it was.
InventoryAppendOnly ==
    [][/\ IsPrefixOf(Dashboards, Dashboards')
       /\ IsPrefixOf(Widgets, Widgets')
       /\ IsPrefixOf(Queries, Queries')
       /\ IsPrefixOf(Visualizations, Visualizations')]_vars

\* A call of loadDashboard or loadQuery with an ID its collection holds.
RepeatLoadCall ==
    \/ /\ pc = "main" /\ mode = "dashboard" /\ args # <<>>
       /\ InDashboards(Head(args))
    \/ /\ pc = "main" /\ mode = "query" /\ args # <<>>
       /\ InQueries(Head(args))
    \/ /\ pc = "recurse" /\ wps # <<>> /\ EmbedsQuery(Head(wps))
       /\ InQueries(Head(wps).Visualization[1].Query[1])

\* C5: loadDashboard(id) with a dashboard of RemoteID id present, and
\* loadQuery(id) with a query of RemoteID id present, fetches nothing and
\* leaves the four collections as they are.
RepeatLoadIsNoOp ==
    [][RepeatLoadCall =>
          UNCHANGED <<Dashboards, Widgets, Queries, Visualizations, fetches>>]_vars

\* loadDashboard has gone through two widgets that embed the same query:
\* one dashboard fetch, one query fetch, one query.
RepeatLoadIsNoOpWitness ==
    /\ pc = "recurse" /\ wps = <<>>
    /\ Len(Dashboards) = 1 /\ Len(Widgets) = 2 /\ Len(Queries) = 1
    /\ EmbedsQuery(Widgets[1]) /\ EmbedsQuery(Widgets[2])
    /\ Widgets[1].Visualization[1].Query = Widgets[2].Visualization[1].Query
    /\ fetches = 2

\* C6: a visualization of a query named Q whose lower-cased type t occurs
\* once among the query's visualizations is named Q_t; otherwise it is
\* named Q_t_k, k being the number of earlier visualizations of type t.
VisualizationNaming ==
    \A n \in DOMAIN Queries :
       LET q == Queries[n]
           vs == VisualizationsOf(q)
       IN  \A k \in DOMAIN vs :
              LET t == ToLower(vs[k].Type)
                  same == {j \in DOMAIN vs : ToLower(vs[j].Type) = t}
                  earlier == {j \in same : j < k}
              IN  vs[k].ResourceName =
                     IF Cardinality(same) = 1
                     THEN q.ResourceName \o <<"_">> \o t
                     ELSE q.ResourceName \o <<"_">> \o t \o <<"_">>
                          \o Itoa(Cardinality(earlier))

\* A query with visualizations of types table, table, chart, the two
\* tables spelled in different case.
VisualizationNamingWitness ==
    \E n \in DOMAIN Queries :
       LET vs == VisualizationsOf(Queries[n])
       IN  /\ Len(vs) = 3
           /\ vs[1].Type # vs[2].Type
           /\ ToLower(vs[1].Type) = Table
           /\ ToLower(vs[2].Type) = Table
           /\ ToLower(vs[3].Type) = <<"c","h","a","r","t">>

WritingQuery == pc = "writeQueries" /\ qi <= Len(Queries)

\* What names a block and what it refers to.
BlockKey(b) == <<b.resource, b.name, b.query_id>>

\* The query block, then one visualization block per visualization of the
\* query in inventory order, each referring to the query's ResourceName.
ExpectedQueryFile(q) ==
    <<  <<"databricks_sql_query", q.ResourceName, <<>> >>  >>
    \o [k \in 1..Len(VisualizationsOf(q)) |->
           << "databricks_sql_visualization",
              VisualizationsOf(q)[k].ResourceName,
              <<q.ResourceName>> >>]

QueryWritten(j) ==
    \/ pc \in {"writeDashboards", "done", "fatal"}
    \/ pc = "writeQueries" /\ j < qi

\* C7: writeQuery writes to the query's file the query block and then, and
\* nothing else, one visualization block per inventory visualization whose
\* QueryID is the query's RemoteID, in inventory order, each with query_id
\* referring to the query's ResourceName; it writes to no other file.
QueryFileLayout ==
    /\ [](\A j \in DOMAIN Queries :
            (/\ QueryWritten(j)
             /\ \A k \in DOMAIN Queries :
                   k > j /\ QueryWritten(k) =>
                      Queries[k].ResourceName # Queries[j].ResourceName)
            => LET f == files[QueryFile(Queries[j].ResourceName)]
               IN  [k \in 1..Len(f) |-> BlockKey(f[k])]
                      = ExpectedQueryFile(Queries[j]))
    /\ [][WritingQuery =>
            LET q == Queries[qi]
                f == files'[QueryFile(q.ResourceName)]
            IN  /\ [k \in 1..Len(f) |-> BlockKey(f[k])] = ExpectedQueryFile(q)
                /\ \A n \in DOMAIN files \ {QueryFile(q.ResourceName)} :
                      n \in DOMAIN files' /\ files'[n] = files[n]]_vars

\* Two queries of different names are written, the first with two
\* visualizations and the second with one.
QueryFileLayoutWitness ==
    /\ pc = "done" /\ Len(Queries) = 2
    /\ Queries[1].ResourceName # Queries[2].ResourceName
    /\ Len(files[QueryFile(Queries[1].ResourceName)]) = 3
    /\ Len(files[QueryFile(Queries[2].ResourceName)]) = 2

\* C8: a fetch that fails inserts nothing; after it there is no fetch, no
\* insert and no write; and no output file exists when it fails.
FetchErrorAborts ==
    [][/\ err' # "nil" => files' = NoFiles
       /\ err' # "nil" =>
             UNCHANGED <<Dashboards, Widgets, Queries, Visualizations>>
       /\ err # "nil" =>
             UNCHANGED <<Dashboards, Widgets, Queries, Visualizations,
                         files, fetches>>]_vars

\* The second query fetch of a dashboard's recursion has failed.
FetchErrorAbortsWitness ==
    /\ err # "nil" /\ pc = "panic"
    /\ Len(Dashboards) = 1 /\ Len(Queries) = 1 /\ fetches = 3
    /\ files = NoFiles

LowerWordChars == {Lower[i] : i \in 1..26} \cup DigitChars \cup {"_"}

\* C10: canonicalize(canonicalize(s)) = canonicalize(s), and
\* canonicalize(s) holds only lower-case word characters and underscores.
CanonicalizeIdempotent ==
    /\ cpc = "twice" => canon2 = canon1
    /\ cpc \in {"once", "twice"} =>
          \A i \in DOMAIN canon1 : canon1[i] \in LowerWordChars

\* A name with an upper-case letter, a parenthesis and a blank went
\* through canonicalize twice.
CanonicalizeIdempotentWitness ==
    /\ cpc = "twice"
    /\ \E i, j, k \in DOMAIN str :
          str[i] = "B" /\ str[j] = "(" /\ str[k] = " "

====
